---- MODULE Spec2Model ----
(***************************************************************************)
(* Ticket reservation: admission control (create_booking) under a Redis    *)
(* lock and a conditional UPDATE, the booking route's dispatch, and the    *)
(* finalization worker (finalize_booking_task / finalize_booking).         *)
(*                                                                         *)
(* The database is modelled at the level the code relies on: committed     *)
(* rows, plus per session the uncommitted work of its open transaction.    *)
(* An UPDATE of an event row takes that row's write lock until the         *)
(* transaction ends, so a second writer of the same row waits.             *)
(* The Redis lock is a key with an owner token and a lease: the lease can  *)
(* run out while the owner is still inside its critical section.           *)
(***************************************************************************)
EXTENDS Integers, FiniteSets, Sequences, TLC

\* ---------------------------------------------------------------- bounds
NumCallers == 2        \* concurrent create_booking calls
NumEvents == 1         \* Event rows that exist
MaxCapacity == 2       \* largest Event.capacity tried
NumWorkers == 2        \* concurrent finalize runs

Callers == 1..NumCallers
Events == 1..NumEvents
MissingEvent == NumEvents + 1          \* an event_id with no Event row
MaxEvents == NumEvents + 1             \* rows POST /event adds to an empty table
EventIds == Events \cup {MissingEvent}
Workers == 1..NumWorkers
BookingIds == 1..NumCallers             \* ids the bookings key can reach
MissingBooking == NumCallers + 1        \* a booking_id with no Booking row
NoCaller == 0
NoBooking == [id |-> 0, event_id |-> 0, user_id |-> 0, status |-> "NONE"]

\* app/models/books.py BookingStatus
PENDING == "PENDING"
FINALIZED == "FINALIZED"
BookingStatus == {PENDING, FINALIZED}

\* the two messages create_booking puts in a SoldOutError
MsgLock == "Could not acquire lock, please try again."
MsgSoldOut == "Event is sold out."

VARIABLES
    capacity,       \* Event.capacity, committed, per event
    booked_count,   \* Event.booked_count, committed, per event
    created_count,  \* booked_count the Event row was created with
    bookings,       \* committed Booking rows
    next_id,        \* next value of the bookings primary key
    lock,           \* Redis key event_lock:<id> -> owner (NoCaller: absent)
    pc,             \* per caller: position in create_booking / book_ticket
    event_id,       \* per caller: argument
    user_id,        \* per caller: argument
    in_tx,          \* per caller: db.in_transaction() at the call
    tx_inc,         \* per caller: open transaction holds the increment
    tx_row,         \* per caller: open transaction holds the flushed row
    booking,        \* per caller: the Booking object built by the call
    exc,            \* per caller: exception propagating out of the try body
    outcome,        \* per caller: how create_booking ended
    message,        \* per caller: text of the SoldOutError raised
    queue,          \* finalize_booking_task messages: booking id -> count
    enqueued,       \* per caller: book_ticket's delay() went through
    wpc,            \* per worker: position in finalize_booking_task
    wid,            \* per worker: booking_id argument
    wrow,           \* per worker: what db.get(Booking, booking_id) returned
    wout,           \* per worker: how its last finalize run ended
    http,           \* status code of the read request being answered (0: none)
    stats,          \* what get_event_stats returned to that request
    report          \* what get_overall_report returned to that request

evars == <<capacity, booked_count, created_count>>
store == <<capacity, booked_count, bookings>>
cvars == <<pc, event_id, user_id, in_tx, tx_inc, tx_row, booking, exc, outcome, message>>
wvars == <<wpc, wid, wrow, wout>>
rvars == <<http, stats, report>>
vars == <<capacity, booked_count, created_count, bookings, next_id, lock,
          pc, event_id, user_id, in_tx, tx_inc, tx_row, booking, exc,
          outcome, message, queue, enqueued, wpc, wid, wrow, wout,
          http, stats, report>>

\* ------------------------------------------------------------- database
\* rows of one event / FINALIZED rows of one event, among a set of rows
RowsOf(rows, e) == {b \in rows : b.event_id = e}
FinalizedOf(rows, e) == {b \in rows : b.event_id = e /\ b.status = FINALIZED}

\* the event row is write-locked by an open transaction that updated it
RowLocked(e) == \E c \in Callers : tx_inc[c] /\ event_id[c] = e

\* mutant: the comparison lets a full event through
UpdateMatches_AtMost(e) == e \in DOMAIN capacity /\ booked_count[e] <= capacity[e]

\* mutant: the comparison keeps the last ticket back
UpdateMatches_Short(e) == e \in DOMAIN capacity /\ booked_count[e] + 1 < capacity[e]

\* WHERE Event.id == event_id AND Event.booked_count < Event.capacity
UpdateMatches(e) == e \in DOMAIN capacity /\ booked_count[e] < capacity[e]

\* mutant: the two foreign keys are passed in the wrong order
NewBooking_Swapped(c) ==
    [id |-> next_id, event_id |-> user_id[c], user_id |-> event_id[c], status |-> PENDING]

\* Booking(event_id=event_id, user_id=user_id, status=PENDING), id from flush
NewBooking(c) ==
    [id |-> next_id, event_id |-> event_id[c], user_id |-> user_id[c], status |-> PENDING]

\* what a commit of caller c's transaction writes
CommitEvents(c) ==
    IF tx_inc[c]
    THEN [booked_count EXCEPT ![event_id[c]] = booked_count[event_id[c]] + 1]
    ELSE booked_count
CommitRows(c) == IF tx_row[c] THEN bookings \cup {booking[c]} ELSE bookings

\* ----------------------------------------------------------- Redis lock
\* SET event_lock:<k> token NX PX 10000 succeeds iff the key is absent
LockAbsent(k) == lock[k] = NoCaller
\* the release script deletes the key only if it still holds the token
OwnsLock(c) == lock[event_id[c]] = c

\* ---------------------------------------------------------------- reads
\* the empty dict get_event_stats returns for an event that does not exist
EmptyStats == [event_id |-> 0, capacity |-> 0, booked_count |-> 0, finalized_count |-> 0]
NoReport == [total_capacity |-> -1, total_reserved |-> -1, total_finalized |-> -1]

\* mutant: the count leaves out the filter on the status
get_event_stats_AnyStatus(e) ==
    IF e \notin DOMAIN capacity THEN EmptyStats
    ELSE [event_id |-> e,
          capacity |-> capacity[e],
          booked_count |-> booked_count[e],
          finalized_count |-> Cardinality(RowsOf(bookings, e))]

\* mutant: a missing event is answered with zeros under its id
get_event_stats_Zeros(e) ==
    IF e \notin DOMAIN capacity
    THEN [event_id |-> e, capacity |-> 0, booked_count |-> 0, finalized_count |-> 0]
    ELSE [event_id |-> e,
          capacity |-> capacity[e],
          booked_count |-> booked_count[e],
          finalized_count |-> Cardinality(FinalizedOf(bookings, e))]

\* get_event_stats(db, e): {} without the Event row, else the row's
\* capacity and booked_count and the count of its FINALIZED bookings
get_event_stats(e) ==
    IF e \notin DOMAIN capacity THEN EmptyStats
    ELSE [event_id |-> e,
          capacity |-> capacity[e],
          booked_count |-> booked_count[e],
          finalized_count |-> Cardinality(FinalizedOf(bookings, e))]

\* SELECT sum(column) FROM events: NULL on an empty table, else the sum
\* over the rows 1..n
NULL == -1
RECURSIVE SumTo(_, _)
SumTo(f, n) == IF n = 0 THEN 0 ELSE f[n] + SumTo(f, n - 1)
SqlSum(f) == IF DOMAIN f = {} THEN NULL ELSE SumTo(f, Cardinality(DOMAIN f))

\* int(total or 0)
IntOrZero(x) == IF x = NULL \/ x = 0 THEN 0 ELSE x

\* mutant: the sums are returned as the database gave them
get_overall_report_Raw ==
    [total_capacity |-> SqlSum(capacity),
     total_reserved |-> SqlSum(booked_count),
     total_finalized |-> Cardinality({b \in bookings : b.status = FINALIZED})]

\* get_overall_report(db)
get_overall_report ==
    [total_capacity |-> IntOrZero(SqlSum(capacity)),
     total_reserved |-> IntOrZero(SqlSum(booked_count)),
     total_finalized |-> IntOrZero(Cardinality({b \in bookings : b.status = FINALIZED}))]

\* ------------------------------------------------------------------ Init
\* nothing is running: no call, no lock, no message, no worker
Idle ==
    /\ lock = [k \in EventIds |-> NoCaller]
    /\ pc = [c \in Callers |-> "idle"]
    /\ event_id = [c \in Callers |-> 0]
    /\ user_id = [c \in Callers |-> 0]
    /\ in_tx = [c \in Callers |-> FALSE]
    /\ tx_inc = [c \in Callers |-> FALSE]
    /\ tx_row = [c \in Callers |-> FALSE]
    /\ booking = [c \in Callers |-> NoBooking]
    /\ exc = [c \in Callers |-> "none"]
    /\ outcome = [c \in Callers |-> "none"]
    /\ message = [c \in Callers |-> ""]
    /\ queue = [i \in BookingIds |-> 0]
    /\ enqueued = [c \in Callers |-> FALSE]
    /\ wpc = [w \in Workers |-> "idle"]
    /\ wid = [w \in Workers |-> 0]
    /\ wrow = [w \in Workers |-> NoBooking]
    /\ wout = [w \in Workers |-> "none"]
    /\ http = 0
    /\ stats = EmptyStats
    /\ report = NoReport

\* the events were made by POST /event: capacity >= 1, booked_count = 0
Init ==
    /\ capacity \in [Events -> 1..MaxCapacity]
    /\ booked_count = [e \in Events |-> 0]
    /\ created_count = booked_count
    /\ bookings = {}
    /\ next_id = 1
    /\ Idle

\* a new deployment: the events table is empty
InitEmpty ==
    /\ capacity = <<>>
    /\ booked_count = <<>>
    /\ created_count = <<>>
    /\ bookings = {}
    /\ next_id = 1
    /\ Idle

\* the events were written to the table directly, as the tests do, with
\* some tickets already counted as booked
InitSeeded ==
    /\ capacity \in [Events -> 1..MaxCapacity]
    /\ booked_count \in [Events -> 0..MaxCapacity]
    /\ \A e \in Events : booked_count[e] <= capacity[e]
    /\ created_count = booked_count
    /\ bookings = {}
    /\ next_id = 1
    /\ Idle

\* earlier requests have booked: n PENDING rows with ids 1..n, each counted
\* in the booked_count of its event
InitBooked ==
    /\ capacity = [e \in Events |-> MaxCapacity]
    /\ \E n \in 0..NumCallers : \E ev \in [1..n -> Events] :
           /\ bookings = {[id |-> i, event_id |-> ev[i], user_id |-> i, status |-> PENDING] :
                              i \in 1..n}
           /\ booked_count = [e \in Events |-> Cardinality({i \in 1..n : ev[i] = e})]
           /\ next_id = n + 1
    /\ \A e \in Events : booked_count[e] <= capacity[e]
    /\ created_count = [e \in Events |-> 0]
    /\ Idle

\* --------------------------------------------------------- create_event
\* POST /event with capacity cap (EventCreate: capacity >= 1): the row gets
\* the next id and booked_count 0, and is committed
create_event(cap) ==
    /\ Cardinality(DOMAIN capacity) < MaxEvents
    /\ capacity' = Append(capacity, cap)
    /\ booked_count' = Append(booked_count, 0)
    /\ created_count' = Append(created_count, 0)
    /\ UNCHANGED <<rvars, bookings, next_id, lock, cvars, queue, enqueued, wvars>>

\* ------------------------------------------------------- create_booking
\* Requests are numbered in the order they enter create_booking.
Arrives(c) == pc[c] = "idle" /\ (IF c = 1 THEN TRUE ELSE pc[c - 1] # "idle")

\* mutant: the SET is issued without NX and takes over a held key
AcquireLock_Overwrite(c, e, intx) ==
    /\ Arrives(c)
    /\ lock' = [lock EXCEPT ![e] = c]
    /\ event_id' = [event_id EXCEPT ![c] = e]
    /\ user_id' = [user_id EXCEPT ![c] = c]
    /\ in_tx' = [in_tx EXCEPT ![c] = intx]
    /\ pc' = [pc EXCEPT ![c] = "update"]
    /\ UNCHANGED <<rvars, evars, bookings, next_id, tx_inc, tx_row, booking, exc,
                   outcome, message, queue, enqueued, wvars>>

\* mutant: one key "event_lock" serves every event
AcquireLock_Global(c, e, intx) ==
    /\ Arrives(c)
    /\ \A k \in EventIds : LockAbsent(k)
    /\ lock' = [lock EXCEPT ![e] = c]
    /\ event_id' = [event_id EXCEPT ![c] = e]
    /\ user_id' = [user_id EXCEPT ![c] = c]
    /\ in_tx' = [in_tx EXCEPT ![c] = intx]
    /\ pc' = [pc EXCEPT ![c] = "update"]
    /\ UNCHANGED <<rvars, evars, bookings, next_id, tx_inc, tx_row, booking, exc,
                   outcome, message, queue, enqueued, wvars>>

\* create_booking(db, event_id=e, user_id=c) with a session for which
\* db.in_transaction() answers intx; lock.acquire(blocking=True,
\* blocking_timeout=5) returns True.  The caller number serves as user id.
AcquireLock(c, e, intx) ==
    /\ Arrives(c)
    /\ LockAbsent(e)
    /\ lock' = [lock EXCEPT ![e] = c]
    /\ event_id' = [event_id EXCEPT ![c] = e]
    /\ user_id' = [user_id EXCEPT ![c] = c]
    /\ in_tx' = [in_tx EXCEPT ![c] = intx]
    /\ pc' = [pc EXCEPT ![c] = "update"]
    /\ UNCHANGED <<rvars, evars, bookings, next_id, tx_inc, tx_row, booking, exc,
                   outcome, message, queue, enqueued, wvars>>

\* mutant: a failed acquire surfaces as a LockError of its own
AcquireTimeout_LockError(c, e, intx) ==
    /\ Arrives(c)
    /\ ~LockAbsent(e)
    /\ event_id' = [event_id EXCEPT ![c] = e]
    /\ user_id' = [user_id EXCEPT ![c] = c]
    /\ in_tx' = [in_tx EXCEPT ![c] = intx]
    /\ pc' = [pc EXCEPT ![c] = "returned"]
    /\ outcome' = [outcome EXCEPT ![c] = "Error"]
    /\ message' = [message EXCEPT ![c] = MsgLock]
    /\ UNCHANGED <<rvars, evars, bookings, next_id, lock, tx_inc, tx_row, booking, exc,
                   queue, enqueued, wvars>>

\* mutant: a failed acquire sends the call back to its start to try again
AcquireTimeout_Retry(c, e, intx) ==
    /\ Arrives(c)
    /\ ~LockAbsent(e)
    /\ event_id' = [event_id EXCEPT ![c] = e]
    /\ user_id' = [user_id EXCEPT ![c] = c]
    /\ in_tx' = [in_tx EXCEPT ![c] = intx]
    /\ UNCHANGED <<rvars, evars, bookings, next_id, lock, pc, tx_inc, tx_row, booking, exc,
                   outcome, message, queue, enqueued, wvars>>

\* mutant: acquire is called without blocking_timeout and never returns
\* False
AcquireTimeout_Block(c, e, intx) ==
    /\ Arrives(c)
    /\ ~LockAbsent(e)
    /\ FALSE
    /\ UNCHANGED vars

\* the same call, but lock.acquire returns False: the key was still taken
\* when the wait ran out; create_booking raises SoldOutError without
\* entering the inner try
AcquireTimeout(c, e, intx) ==
    /\ Arrives(c)
    /\ ~LockAbsent(e)
    /\ event_id' = [event_id EXCEPT ![c] = e]
    /\ user_id' = [user_id EXCEPT ![c] = c]
    /\ in_tx' = [in_tx EXCEPT ![c] = intx]
    /\ pc' = [pc EXCEPT ![c] = "returned"]
    /\ outcome' = [outcome EXCEPT ![c] = "SoldOutError"]
    /\ message' = [message EXCEPT ![c] = MsgLock]
    /\ UNCHANGED <<rvars, evars, bookings, next_id, lock, tx_inc, tx_row, booking, exc,
                   queue, enqueued, wvars>>

\* mutant: the lock is made without a timeout and its key never expires
LeaseExpire_NoTimeout(k) ==
    /\ lock[k] # NoCaller
    /\ FALSE
    /\ UNCHANGED vars

\* the lease (timeout=10) runs out: Redis drops the key whoever holds it
LeaseExpire(k) ==
    /\ lock[k] # NoCaller
    /\ lock' = [lock EXCEPT ![k] = NoCaller]
    /\ UNCHANGED <<rvars, evars, bookings, next_id, cvars, queue, enqueued, wvars>>

\* mutant: the UPDATE neither waits for the row's write lock nor sees the
\* increment another open transaction holds (check, then write)
UpdateOne_NoWait(c) ==
    /\ pc[c] = "update"
    /\ UpdateMatches(event_id[c])
    /\ tx_inc' = [tx_inc EXCEPT ![c] = TRUE]
    /\ pc' = [pc EXCEPT ![c] = "insert"]
    /\ UNCHANGED <<rvars, evars, bookings, next_id, lock, event_id, user_id, in_tx, tx_row,
                   booking, exc, outcome, message, queue, enqueued, wvars>>

\* mutant: the UPDATE is committed on its own, before the insert
UpdateOne_Autocommit(c) ==
    /\ pc[c] = "update"
    /\ UpdateMatches(event_id[c])
    /\ ~RowLocked(event_id[c])
    /\ booked_count' = [booked_count EXCEPT ![event_id[c]] = booked_count[event_id[c]] + 1]
    /\ pc' = [pc EXCEPT ![c] = "insert"]
    /\ UNCHANGED <<rvars, capacity, created_count, bookings, next_id, lock, event_id, user_id, in_tx,
                   tx_inc, tx_row, booking, exc, outcome, message, queue, enqueued, wvars>>

\* db.execute(stmt) with rowcount 1: the row is incremented inside the
\* caller's transaction.  A row write-locked by another open transaction
\* makes the statement wait.
UpdateOne(c) ==
    /\ pc[c] = "update"
    /\ UpdateMatches(event_id[c])
    /\ ~RowLocked(event_id[c])
    /\ tx_inc' = [tx_inc EXCEPT ![c] = TRUE]
    /\ pc' = [pc EXCEPT ![c] = "insert"]
    /\ UNCHANGED <<rvars, evars, bookings, next_id, lock, event_id, user_id, in_tx, tx_row,
                   booking, exc, outcome, message, queue, enqueued, wvars>>

\* mutant: rowcount 0 is not checked and the insert goes ahead
UpdateNone_Unchecked(c) ==
    /\ pc[c] = "update"
    /\ ~UpdateMatches(event_id[c])
    /\ pc' = [pc EXCEPT ![c] = "insert"]
    /\ UNCHANGED <<rvars, evars, bookings, next_id, lock, event_id, user_id, in_tx, tx_inc,
                   tx_row, booking, exc, outcome, message, queue, enqueued, wvars>>

\* db.execute(stmt) with rowcount 0: raise SoldOutError("Event is sold out.")
UpdateNone(c) ==
    /\ pc[c] = "update"
    /\ ~UpdateMatches(event_id[c])
    /\ exc' = [exc EXCEPT ![c] = "SoldOutError"]
    /\ pc' = [pc EXCEPT ![c] = "release"]
    /\ UNCHANGED <<rvars, evars, bookings, next_id, lock, event_id, user_id, in_tx, tx_inc,
                   tx_row, booking, outcome, message, queue, enqueued, wvars>>

\* mutant: the new transaction is begun without the with block and is left
\* for the session's owner to commit
InsertBooking_NoCommit(c) ==
    /\ pc[c] = "insert"
    /\ booking' = [booking EXCEPT ![c] = NewBooking(c)]
    /\ next_id' = next_id + 1
    /\ tx_row' = [tx_row EXCEPT ![c] = TRUE]
    /\ pc' = [pc EXCEPT ![c] = "release"]
    /\ UNCHANGED <<rvars, evars, bookings, lock, event_id, user_id, in_tx, tx_inc, exc,
                   outcome, message, queue, enqueued, wvars>>

\* db.add(booking); db.flush(); db.refresh(booking): the row gets its id and
\* the function returns.  In a session that was already in a transaction
\* the work stays uncommitted; otherwise leaving with db.begin() commits
\* the increment and the row together.
InsertBooking(c) ==
    /\ pc[c] = "insert"
    /\ booking' = [booking EXCEPT ![c] = NewBooking(c)]
    /\ next_id' = next_id + 1
    /\ IF in_tx[c]
       THEN /\ tx_row' = [tx_row EXCEPT ![c] = TRUE]
            /\ UNCHANGED <<booked_count, bookings, tx_inc>>
       ELSE /\ booked_count' = CommitEvents(c)
            /\ bookings' = bookings \cup {NewBooking(c)}
            /\ tx_inc' = [tx_inc EXCEPT ![c] = FALSE]
            /\ UNCHANGED tx_row
    /\ pc' = [pc EXCEPT ![c] = "release"]
    /\ UNCHANGED <<rvars, capacity, created_count, lock, event_id, user_id, in_tx, exc,
                   outcome, message, queue, enqueued, wvars>>

\* db.execute(stmt) raises a database error: nothing was written and the
\* error propagates through the finally clause
ExecuteError(c) ==
    /\ pc[c] = "update"
    /\ exc' = [exc EXCEPT ![c] = "ExecuteError"]
    /\ pc' = [pc EXCEPT ![c] = "release"]
    /\ UNCHANGED <<rvars, evars, bookings, next_id, lock, event_id, user_id, in_tx, tx_inc,
                   tx_row, booking, outcome, message, queue, enqueued, wvars>>

\* db.flush() (or the COMMIT that ends with db.begin()) raises after the
\* UPDATE went through: the failed flush, or db.begin(), rolls the whole
\* transaction back, the increment included, and the error propagates
FlushError(c) ==
    /\ pc[c] = "insert"
    /\ tx_inc' = [tx_inc EXCEPT ![c] = FALSE]
    /\ exc' = [exc EXCEPT ![c] = "FlushError"]
    /\ pc' = [pc EXCEPT ![c] = "release"]
    /\ UNCHANGED <<rvars, evars, bookings, next_id, lock, event_id, user_id, in_tx, tx_row,
                   booking, outcome, message, queue, enqueued, wvars>>

\* how create_booking ends once lock.release() has run in the finally
\* clause: release of a key the caller no longer owns raises
\* LockNotOwnedError, which the outer except turns into SoldOutError
ReleaseOutcome(c) ==
    IF ~OwnsLock(c) THEN "SoldOutError"
    ELSE IF exc[c] = "none" THEN "Booking"
    ELSE IF exc[c] = "SoldOutError" THEN "SoldOutError"
    ELSE "Error"
ReleaseMessage(c) ==
    IF ~OwnsLock(c) THEN MsgLock
    ELSE IF exc[c] = "SoldOutError" THEN MsgSoldOut
    ELSE ""

\* mutant: the release sits after the transaction instead of in finally
ReleaseLock_OnSuccess(c) ==
    /\ pc[c] = "release"
    /\ lock' = IF OwnsLock(c) /\ exc[c] = "none"
               THEN [lock EXCEPT ![event_id[c]] = NoCaller] ELSE lock
    /\ outcome' = [outcome EXCEPT ![c] = ReleaseOutcome(c)]
    /\ message' = [message EXCEPT ![c] = ReleaseMessage(c)]
    /\ pc' = [pc EXCEPT ![c] = "returned"]
    /\ UNCHANGED <<rvars, evars, bookings, next_id, event_id, user_id, in_tx, tx_inc, tx_row,
                   booking, exc, queue, enqueued, wvars>>

\* finally: lock.release(), then the return or the raise
ReleaseLock(c) ==
    /\ pc[c] = "release"
    /\ lock' = IF OwnsLock(c) THEN [lock EXCEPT ![event_id[c]] = NoCaller] ELSE lock
    /\ outcome' = [outcome EXCEPT ![c] = ReleaseOutcome(c)]
    /\ message' = [message EXCEPT ![c] = ReleaseMessage(c)]
    /\ pc' = [pc EXCEPT ![c] = "returned"]
    /\ UNCHANGED <<rvars, evars, bookings, next_id, event_id, user_id, in_tx, tx_inc, tx_row,
                   booking, exc, queue, enqueued, wvars>>

\* the owner of a session that was already in a transaction commits it
\* after create_booking has returned
SessionCommit(c) ==
    /\ pc[c] = "returned"
    /\ tx_inc[c]
    /\ booked_count' = CommitEvents(c)
    /\ bookings' = CommitRows(c)
    /\ tx_inc' = [tx_inc EXCEPT ![c] = FALSE]
    /\ tx_row' = [tx_row EXCEPT ![c] = FALSE]
    /\ UNCHANGED <<rvars, capacity, created_count, next_id, lock, pc, event_id, user_id, in_tx,
                   booking, exc, outcome, message, queue, enqueued, wvars>>

\* the process dies inside the critical section: its connection is closed
\* (the open transaction is rolled back), lock.release() never runs and
\* nothing of the call is left but the Redis key
Crash(c) ==
    /\ pc[c] \in {"update", "insert", "release"}
    /\ tx_inc' = [tx_inc EXCEPT ![c] = FALSE]
    /\ tx_row' = [tx_row EXCEPT ![c] = FALSE]
    /\ booking' = [booking EXCEPT ![c] = NoBooking]
    /\ exc' = [exc EXCEPT ![c] = "none"]
    /\ in_tx' = [in_tx EXCEPT ![c] = FALSE]
    /\ pc' = [pc EXCEPT ![c] = "crashed"]
    /\ UNCHANGED <<rvars, evars, bookings, next_id, lock, event_id, user_id,
                   outcome, message, queue, enqueued, wvars>>

\* create_booking with the lock statements taken out (lines 25-32 and the
\* finally clause): the call goes straight to the transaction
EnterUnlocked(c, e) ==
    /\ Arrives(c)
    /\ event_id' = [event_id EXCEPT ![c] = e]
    /\ user_id' = [user_id EXCEPT ![c] = c]
    /\ in_tx' = [in_tx EXCEPT ![c] = FALSE]
    /\ pc' = [pc EXCEPT ![c] = "update"]
    /\ UNCHANGED <<rvars, evars, bookings, next_id, lock, tx_inc, tx_row, booking, exc,
                   outcome, message, queue, enqueued, wvars>>

\* and returns the Booking, or raises what the transaction raised
ReturnUnlocked(c) ==
    /\ pc[c] = "release"
    /\ outcome' = [outcome EXCEPT ![c] =
                       IF exc[c] = "none" THEN "Booking"
                       ELSE IF exc[c] = "SoldOutError" THEN "SoldOutError"
                       ELSE "Error"]
    /\ message' = [message EXCEPT ![c] =
                       IF exc[c] = "SoldOutError" THEN MsgSoldOut ELSE ""]
    /\ pc' = [pc EXCEPT ![c] = "returned"]
    /\ UNCHANGED <<rvars, evars, bookings, next_id, lock, event_id, user_id, in_tx, tx_inc,
                   tx_row, booking, exc, queue, enqueued, wvars>>

\* ---------------------------------------------------------- book_ticket
\* HTTP status of POST /book: SoldOutError becomes 409, a Booking 200, any
\* other exception is unhandled
StatusCode(c) ==
    IF outcome[c] = "SoldOutError" THEN 409
    ELSE IF outcome[c] = "Booking" THEN 200
    ELSE 500

\* mutant: delay() is called a second time after it went through
Dispatch_Twice(c) ==
    /\ pc[c] = "returned"
    /\ outcome[c] = "Booking"
    /\ ~in_tx[c]
    /\ queue' = [queue EXCEPT ![booking[c].id] = queue[booking[c].id] + 2]
    /\ enqueued' = [enqueued EXCEPT ![c] = TRUE]
    /\ pc' = [pc EXCEPT ![c] = "responded"]
    /\ UNCHANGED <<rvars, evars, bookings, next_id, lock, event_id, user_id, in_tx, tx_inc,
                   tx_row, booking, exc, outcome, message, wvars>>

\* create_booking returned into book_ticket (a request's session is new,
\* never in a transaction): finalize_booking_task.delay(booking.id) succeeds
Dispatch(c) ==
    /\ pc[c] = "returned"
    /\ outcome[c] = "Booking"
    /\ ~in_tx[c]
    /\ queue' = [queue EXCEPT ![booking[c].id] = queue[booking[c].id] + 1]
    /\ enqueued' = [enqueued EXCEPT ![c] = TRUE]
    /\ pc' = [pc EXCEPT ![c] = "responded"]
    /\ UNCHANGED <<rvars, evars, bookings, next_id, lock, event_id, user_id, in_tx, tx_inc,
                   tx_row, booking, exc, outcome, message, wvars>>

\* mutant: the exception of delay() is not suppressed and fails the request
DispatchFail_Raise(c) ==
    /\ pc[c] = "returned"
    /\ outcome[c] = "Booking"
    /\ ~in_tx[c]
    /\ outcome' = [outcome EXCEPT ![c] = "Error"]
    /\ pc' = [pc EXCEPT ![c] = "responded"]
    /\ UNCHANGED <<rvars, evars, bookings, next_id, lock, event_id, user_id, in_tx, tx_inc,
                   tx_row, booking, exc, message, queue, enqueued, wvars>>

\* delay() raises (broker unreachable): contextlib.suppress(Exception)
\* swallows it and the booking is returned all the same
DispatchFail(c) ==
    /\ pc[c] = "returned"
    /\ outcome[c] = "Booking"
    /\ ~in_tx[c]
    /\ pc' = [pc EXCEPT ![c] = "responded"]
    /\ UNCHANGED <<rvars, evars, bookings, next_id, lock, event_id, user_id, in_tx, tx_inc,
                   tx_row, booking, exc, outcome, message, queue, enqueued, wvars>>

\* ------------------------------------------------- finalize_booking_task
\* the committed Booking row with primary key i, NoBooking if there is none
GetBooking(i) ==
    IF \E b \in bookings : b.id = i
    THEN CHOOSE b \in bookings : b.id = i
    ELSE NoBooking

\* mutant: the status is flipped instead of set
SetFinalized_Toggle(rows, i) ==
    {IF b.id = i
     THEN [b EXCEPT !.status = IF b.status = PENDING THEN FINALIZED ELSE PENDING]
     ELSE b : b \in rows}

\* mutant: the UPDATE is issued without its WHERE id = i
SetFinalized_All(rows, i) ==
    {[b EXCEPT !.status = FINALIZED] : b \in rows}

\* booking.status = FINALIZED, flushed by the commit
SetFinalized(rows, i) ==
    {IF b.id = i THEN [b EXCEPT !.status = FINALIZED] ELSE b : b \in rows}

\* mutant: the worker also picks up bookings no message was queued for
TaskStart_Scan(w, i, redeliver) ==
    /\ wpc[w] = "idle"
    /\ GetBooking(i) # NoBooking
    /\ queue' = IF redeliver \/ queue[i] = 0 THEN queue ELSE [queue EXCEPT ![i] = queue[i] - 1]
    /\ wid' = [wid EXCEPT ![w] = i]
    /\ wrow' = [wrow EXCEPT ![w] = NoBooking]
    /\ wout' = [wout EXCEPT ![w] = "none"]
    /\ wpc' = [wpc EXCEPT ![w] = "get"]
    /\ UNCHANGED <<rvars, evars, bookings, next_id, lock, cvars, enqueued>>

\* a worker receives the message for booking i, sleeps and opens a session;
\* the broker may deliver the same message again later (redeliver)
TaskStart(w, i, redeliver) ==
    /\ wpc[w] = "idle"
    /\ queue[i] > 0
    /\ queue' = IF redeliver THEN queue ELSE [queue EXCEPT ![i] = queue[i] - 1]
    /\ wid' = [wid EXCEPT ![w] = i]
    /\ wrow' = [wrow EXCEPT ![w] = NoBooking]
    /\ wout' = [wout EXCEPT ![w] = "none"]
    /\ wpc' = [wpc EXCEPT ![w] = "get"]
    /\ UNCHANGED <<rvars, evars, bookings, next_id, lock, cvars, enqueued>>

\* finalize_booking(db, i) called directly with any id
FinalizeCall(w, i) ==
    /\ wpc[w] = "idle"
    /\ wid' = [wid EXCEPT ![w] = i]
    /\ wrow' = [wrow EXCEPT ![w] = NoBooking]
    /\ wout' = [wout EXCEPT ![w] = "none"]
    /\ wpc' = [wpc EXCEPT ![w] = "get"]
    /\ UNCHANGED <<rvars, evars, bookings, next_id, lock, cvars, queue, enqueued>>

\* mutant: a missing booking raises a LookupError
FinalizeGet_Raise(w) ==
    /\ wpc[w] = "get"
    /\ wrow' = [wrow EXCEPT ![w] = GetBooking(wid[w])]
    /\ IF GetBooking(wid[w]) = NoBooking
       THEN /\ wpc' = [wpc EXCEPT ![w] = "idle"]
            /\ wout' = [wout EXCEPT ![w] = "LookupError"]
       ELSE /\ wpc' = [wpc EXCEPT ![w] = "set"]
            /\ UNCHANGED wout
    /\ UNCHANGED <<rvars, evars, bookings, next_id, lock, cvars, queue, enqueued, wid>>

\* booking = db.get(Booking, booking_id); if not booking: return
FinalizeGet(w) ==
    /\ wpc[w] = "get"
    /\ wrow' = [wrow EXCEPT ![w] = GetBooking(wid[w])]
    /\ IF GetBooking(wid[w]) = NoBooking
       THEN /\ wpc' = [wpc EXCEPT ![w] = "idle"]
            /\ wout' = [wout EXCEPT ![w] = "ok"]
       ELSE /\ wpc' = [wpc EXCEPT ![w] = "set"]
            /\ UNCHANGED wout
    /\ UNCHANGED <<rvars, evars, bookings, next_id, lock, cvars, queue, enqueued, wid>>

\* mutant: the commit checks that the row is as it was read and raises
\* StaleDataError when another run changed it in between
FinalizeCommit_Conflict(w) ==
    /\ wpc[w] = "set"
    /\ IF GetBooking(wid[w]) = wrow[w]
       THEN /\ bookings' = SetFinalized(bookings, wid[w])
            /\ wout' = [wout EXCEPT ![w] = "ok"]
       ELSE /\ bookings' = bookings
            /\ wout' = [wout EXCEPT ![w] = "StaleDataError"]
    /\ wpc' = [wpc EXCEPT ![w] = "idle"]
    /\ UNCHANGED <<rvars, evars, next_id, lock, cvars, queue, enqueued, wid, wrow>>

\* mutant: finalizing hands the ticket back to the event
FinalizeCommit_GiveBack(w) ==
    /\ wpc[w] = "set"
    /\ bookings' = SetFinalized(bookings, wid[w])
    /\ booked_count' = [booked_count EXCEPT ![wrow[w].event_id] = @ - 1]
    /\ wpc' = [wpc EXCEPT ![w] = "idle"]
    /\ wout' = [wout EXCEPT ![w] = "ok"]
    /\ UNCHANGED <<rvars, capacity, created_count, next_id, lock, cvars, queue, enqueued,
                   wid, wrow>>

\* booking.status = BookingStatus.FINALIZED.value and the commit
FinalizeCommit(w) ==
    /\ wpc[w] = "set"
    /\ bookings' = SetFinalized(bookings, wid[w])
    /\ wpc' = [wpc EXCEPT ![w] = "idle"]
    /\ wout' = [wout EXCEPT ![w] = "ok"]
    /\ UNCHANGED <<rvars, evars, next_id, lock, cvars, queue, enqueued, wid, wrow>>

\* the run raises before its commit (database error, worker killed): the
\* session is closed and nothing it did is committed
WorkerFail(w) ==
    /\ wpc[w] \in {"get", "set"}
    /\ wpc' = [wpc EXCEPT ![w] = "idle"]
    /\ wout' = [wout EXCEPT ![w] = "error"]
    /\ UNCHANGED <<rvars, evars, bookings, next_id, lock, cvars, queue, enqueued, wid, wrow>>

\* ------------------------------------------------------------ read routes
\* mutant: the empty result is passed on with 200
EventStats_NoCheck(e) ==
    /\ http = 0
    /\ stats' = get_event_stats(e)
    /\ http' = 200
    /\ UNCHANGED <<evars, bookings, next_id, lock, cvars, queue, enqueued, wvars, report>>

\* GET /event/{e}/stats: stats = get_event_stats(db, e); 404 if not stats
EventStats(e) ==
    /\ http = 0
    /\ stats' = get_event_stats(e)
    /\ http' = IF get_event_stats(e) = EmptyStats THEN 404 ELSE 200
    /\ UNCHANGED <<evars, bookings, next_id, lock, cvars, queue, enqueued, wvars, report>>

\* GET /report/event/{e}: the same call and the same check
EventReport(e) ==
    /\ http = 0
    /\ stats' = get_event_stats(e)
    /\ http' = IF get_event_stats(e) = EmptyStats THEN 404 ELSE 200
    /\ UNCHANGED <<evars, bookings, next_id, lock, cvars, queue, enqueued, wvars, report>>

\* GET /report: return get_overall_report(db)
OverallReport ==
    /\ http = 0
    /\ report' = get_overall_report
    /\ http' = 200
    /\ UNCHANGED <<evars, bookings, next_id, lock, cvars, queue, enqueued, wvars, stats>>

\* the answer is sent and the request is over
Respond ==
    /\ http # 0
    /\ http' = 0
    /\ stats' = EmptyStats
    /\ report' = NoReport
    /\ UNCHANGED <<evars, bookings, next_id, lock, cvars, queue, enqueued, wvars>>

\* ------------------------------------------------------- specifications
\* create_booking called concurrently by requests, each with a session of
\* its own that is not yet in a transaction (get_db), with every failure
\* the call can meet
Next ==
    \/ \E c \in Callers, e \in EventIds : AcquireLock(c, e, FALSE)
    \/ \E c \in Callers, e \in EventIds : AcquireTimeout(c, e, FALSE)
    \/ \E k \in EventIds : LeaseExpire(k)
    \/ \E c \in Callers : UpdateOne(c)
    \/ \E c \in Callers : UpdateNone(c)
    \/ \E c \in Callers : InsertBooking(c)
    \/ \E c \in Callers : ExecuteError(c)
    \/ \E c \in Callers : FlushError(c)
    \/ \E c \in Callers : ReleaseLock(c)
    \/ \E c \in Callers : Crash(c)

Spec == Init /\ [][Next]_vars

\* calls that may die inside the critical section, each made once the call
\* before it has returned or died, with time passing: Redis expires a key
\* whose lease is over
Settled == \A d \in Callers : pc[d] \in {"idle", "returned", "crashed"}
NextCrash ==
    \/ \E c \in Callers, e \in EventIds : Settled /\ AcquireLock(c, e, FALSE)
    \/ \E c \in Callers, e \in EventIds : Settled /\ AcquireTimeout(c, e, FALSE)
    \/ \E k \in EventIds : LeaseExpire(k)
    \/ \E c \in Callers : UpdateOne(c)
    \/ \E c \in Callers : UpdateNone(c)
    \/ \E c \in Callers : InsertBooking(c)
    \/ \E c \in Callers : ReleaseLock(c)
    \/ \E c \in Callers : Crash(c)

SpecCrash ==
    Init /\ [][NextCrash]_vars /\ \A k \in EventIds : WF_vars(LeaseExpire(k))

\* create_booking called again only after the call before it has returned
\* and its transaction has ended, with a session that is or is not in a
\* transaction already; nothing fails
Quiet == \A d \in Callers : pc[d] \in {"idle", "returned", "responded"} /\ ~tx_inc[d]
NextSequential ==
    \/ \E c \in Callers, e \in EventIds, intx \in BOOLEAN : Quiet /\ AcquireLock(c, e, intx)
    \/ \E c \in Callers : UpdateOne(c)
    \/ \E c \in Callers : UpdateNone(c)
    \/ \E c \in Callers : InsertBooking(c)
    \/ \E c \in Callers : ReleaseLock(c)
    \/ \E c \in Callers : SessionCommit(c)

SpecSequential == InitSeeded /\ [][NextSequential]_vars

\* create_booking without its lock, called concurrently, with every
\* failure of the database and of the process
NextLockFree ==
    \/ \E c \in Callers, e \in EventIds : EnterUnlocked(c, e)
    \/ \E c \in Callers : UpdateOne(c)
    \/ \E c \in Callers : UpdateNone(c)
    \/ \E c \in Callers : InsertBooking(c)
    \/ \E c \in Callers : ExecuteError(c)
    \/ \E c \in Callers : FlushError(c)
    \/ \E c \in Callers : ReturnUnlocked(c)
    \/ \E c \in Callers : Crash(c)

SpecLockFree == Init /\ [][NextLockFree]_vars

\* the worker that consumes the queue when tasks are run one at a time
FirstWorker == CHOOSE w \in Workers : \A v \in Workers : w <= v

\* POST /book requests admitted one after the other, each followed by its
\* dispatch, and a worker taking the queued tasks one at a time alongside
\* (workers running at the same time are the matter of NextFinalize)
NextPipeline ==
    \/ \E c \in Callers, e \in EventIds : Quiet /\ AcquireLock(c, e, FALSE)
    \/ \E c \in Callers : UpdateOne(c)
    \/ \E c \in Callers : UpdateNone(c)
    \/ \E c \in Callers : InsertBooking(c)
    \/ \E c \in Callers : ReleaseLock(c)
    \/ \E c \in Callers : Dispatch(c)
    \/ \E c \in Callers : DispatchFail(c)
    \/ \E i \in BookingIds, r \in BOOLEAN : TaskStart(FirstWorker, i, r)
    \/ FinalizeGet(FirstWorker)
    \/ FinalizeCommit(FirstWorker)
    \/ WorkerFail(FirstWorker)

SpecPipeline == Init /\ [][NextPipeline]_vars

\* the same with a worker that keeps running: it takes a task whenever the
\* queue holds one and carries each step of a run out unless the run fails
SpecPipelineFair ==
    /\ SpecPipeline
    /\ WF_vars(\E i \in BookingIds, r \in BOOLEAN : TaskStart(FirstWorker, i, r))
    /\ WF_vars(FinalizeGet(FirstWorker))
    /\ WF_vars(FinalizeCommit(FirstWorker))

\* the whole service: bookings, dispatch and worker as above, and the read
\* routes, each read answered before anything else goes on
NextService ==
    \/ http = 0 /\ NextPipeline
    \/ \E e \in EventIds : EventStats(e)
    \/ \E e \in EventIds : EventReport(e)
    \/ OverallReport
    \/ Respond

SpecService == Init /\ [][NextService]_vars

\* finalize_booking run by concurrent workers on a table of bookings that
\* earlier requests have left behind
NextFinalize ==
    \/ \E w \in Workers, i \in BookingIds \cup {MissingBooking} : FinalizeCall(w, i)
    \/ \E w \in Workers : FinalizeGet(w)
    \/ \E w \in Workers : FinalizeCommit(w)
    \/ \E w \in Workers : WorkerFail(w)

SpecFinalize == InitBooked /\ [][NextFinalize]_vars

\* a new deployment: events are created by POST /event while POST /book
\* requests for any id run concurrently
NextEvents ==
    \/ \E cap \in 1..MaxCapacity : create_event(cap)
    \/ \E c \in Callers, e \in EventIds : AcquireLock(c, e, FALSE)
    \/ \E c \in Callers, e \in EventIds : AcquireTimeout(c, e, FALSE)
    \/ \E c \in Callers : UpdateOne(c)
    \/ \E c \in Callers : UpdateNone(c)
    \/ \E c \in Callers : InsertBooking(c)
    \/ \E c \in Callers : ReleaseLock(c)

SpecEvents == InitEmpty /\ [][NextEvents]_vars

\* the ledger under everything at once: concurrent POST /book requests with
\* lock timeouts, lease expiry, a failed flush and dying processes, each
\* accepted request followed by its dispatch, and a worker finalizing the
\* queued bookings alongside
NextLedger ==
    \/ \E c \in Callers, e \in EventIds : AcquireLock(c, e, FALSE)
    \/ \E c \in Callers, e \in EventIds : AcquireTimeout(c, e, FALSE)
    \/ \E k \in EventIds : LeaseExpire(k)
    \/ \E c \in Callers : UpdateOne(c)
    \/ \E c \in Callers : UpdateNone(c)
    \/ \E c \in Callers : InsertBooking(c)
    \/ \E c \in Callers : FlushError(c)
    \/ \E c \in Callers : ReleaseLock(c)
    \/ \E c \in Callers : Crash(c)
    \/ \E c \in Callers : Dispatch(c)
    \/ \E c \in Callers : DispatchFail(c)
    \/ \E i \in BookingIds : TaskStart(FirstWorker, i, FALSE)
    \/ FinalizeGet(FirstWorker)
    \/ FinalizeCommit(FirstWorker)

SpecLedger == Init /\ [][NextLedger]_vars

\* concurrent calls whose threads keep running: a statement that can go
\* through does, unless the process dies first; nothing is assumed about
\* Redis expiring a key
NextLive ==
    \/ \E c \in Callers, e \in EventIds : AcquireLock(c, e, FALSE)
    \/ \E c \in Callers, e \in EventIds : AcquireTimeout(c, e, FALSE)
    \/ \E k \in EventIds : LeaseExpire(k)
    \/ \E c \in Callers : UpdateOne(c)
    \/ \E c \in Callers : UpdateNone(c)
    \/ \E c \in Callers : InsertBooking(c)
    \/ \E c \in Callers : ReleaseLock(c)
    \/ \E c \in Callers : Crash(c)

SpecLive ==
    /\ Init /\ [][NextLive]_vars
    /\ \A c \in Callers :
           /\ WF_vars(UpdateOne(c) \/ UpdateNone(c))
           /\ WF_vars(InsertBooking(c))
           /\ WF_vars(ReleaseLock(c))

\* a new deployment seen through GET /report: requests that create an
\* event or book a ticket are made one after the other, a worker takes the
\* queued tasks one at a time alongside, nothing fails, and each report is
\* answered before anything else goes on
NextReport ==
    \/ \E cap \in 1..MaxCapacity : http = 0 /\ Quiet /\ create_event(cap)
    \/ \E c \in Callers, e \in EventIds : http = 0 /\ Quiet /\ AcquireLock(c, e, FALSE)
    \/ \E c \in Callers : http = 0 /\ UpdateOne(c)
    \/ \E c \in Callers : http = 0 /\ UpdateNone(c)
    \/ \E c \in Callers : http = 0 /\ InsertBooking(c)
    \/ \E c \in Callers : http = 0 /\ ReleaseLock(c)
    \/ \E c \in Callers : http = 0 /\ Dispatch(c)
    \/ \E i \in BookingIds : http = 0 /\ TaskStart(FirstWorker, i, FALSE)
    \/ http = 0 /\ FinalizeGet(FirstWorker)
    \/ http = 0 /\ FinalizeCommit(FirstWorker)
    \/ OverallReport
    \/ Respond

SpecReport == InitEmpty /\ [][NextReport]_vars

\* =============================================================== claims
InCriticalSection(c) == pc[c] \in {"update", "insert", "release"}
Returned(c) == pc[c] \in {"returned", "responded"}
\* rows of event e that exist for some session: committed, or flushed in
\* an open transaction
FlushedRows(e) == {c \in Callers : tx_row[c] /\ event_id[c] = e}
PendingIncrements(e) == {c \in Callers : tx_inc[c] /\ event_id[c] = e}

\* C1 - No overselling: in every reachable state, whatever the interleaving
\* of create_booking calls, every event has 0 <= booked_count <= capacity,
\* and the Booking rows of the event (committed, and even counting the ones
\* flushed in open transactions) number at most capacity.
C1_NoOverselling ==
    \A e \in Events :
        /\ 0 <= booked_count[e]
        /\ booked_count[e] + Cardinality(PendingIncrements(e)) <= capacity[e]
        /\ Cardinality(RowsOf(bookings, e)) + Cardinality(FlushedRows(e)) <= capacity[e]

\* C1 witness: two calls raced for an event created empty; it is now full
\* and one of the calls was turned away by the conditional UPDATE.
C1_Witness ==
    \E e \in Events, c \in Callers, d \in Callers :
        /\ c # d /\ event_id[c] = e /\ event_id[d] = e
        /\ created_count[e] = 0
        /\ booked_count[e] = capacity[e]
        /\ outcome[c] = "Booking"
        /\ outcome[d] = "SoldOutError" /\ message[d] = MsgSoldOut

\* C2 - Atomicity of accept: in every committed state, an event created
\* with booked_count = 0 has booked_count equal to the number of its
\* committed Booking rows, also after a failure between the UPDATE and the
\* insert.
C2_Atomicity ==
    \A e \in Events :
        created_count[e] = 0 => booked_count[e] = Cardinality(RowsOf(bookings, e))

\* C2 witness: a call failed at the flush, after its UPDATE had gone
\* through, and has returned; another call committed a booking of the same
\* event.
C2_Witness ==
    \E e \in Events, c \in Callers, d \in Callers :
        /\ created_count[e] = 0
        /\ event_id[c] = e /\ exc[c] = "FlushError" /\ Returned(c)
        /\ event_id[d] = e /\ outcome[d] = "Booking" /\ ~tx_inc[d]

\* every one of the NumCallers calls was for event e and has returned, and
\* no session still has an open transaction
AllReturnedOn(e) ==
    \A c \in Callers : Returned(c) /\ event_id[c] = e /\ ~tx_inc[c]
Accepted == {c \in Callers : outcome[c] = "Booking"}
Rejected == {c \in Callers : outcome[c] = "SoldOutError"}
SoldOut == {c \in Callers : outcome[c] = "SoldOutError" /\ message[c] = MsgSoldOut}

NoDatabaseError == \A c \in Callers : exc[c] \notin {"ExecuteError", "FlushError"}

C5_LockTimeout ==
    [][ \A c \in Callers :
            (pc[c] = "idle" /\ pc'[c] = "returned") =>
                /\ outcome'[c] = "SoldOutError"
                /\ StatusCode(c)' = 409
                /\ store' = store
                /\ <<tx_inc, tx_row, lock, next_id>>' = <<tx_inc, tx_row, lock, next_id>>
      ]_vars

\* C5 witness: a call was turned away at the lock although its event has
\* a free ticket.
C5_Witness ==
    \E c \in Callers :
        /\ Returned(c) /\ exc[c] = "none" /\ booking[c] = NoBooking
        /\ outcome[c] = "SoldOutError" /\ message[c] = MsgLock
        /\ event_id[c] \in Events
        /\ booked_count[event_id[c]] + Cardinality(PendingIncrements(event_id[c]))
               < capacity[event_id[c]]

\* C6 - capacity-exhausted rejection: the conditional UPDATE of a call on an
\* event with booked_count = capacity raises SoldOutError and writes
\* nothing; the call ends with SoldOutError, without a Booking, and events
\* and bookings are as before it.
C6_SoldOut ==
    /\ [][ \A c \in Callers :
               (/\ pc[c] = "update" /\ event_id[c] \in Events
                /\ booked_count[event_id[c]] = capacity[event_id[c]]
                /\ pc'[c] \notin {"update", "crashed"}
                /\ exc'[c] # "ExecuteError") =>
                   /\ exc'[c] = "SoldOutError"
                   /\ pc'[c] = "release"
                   /\ store' = store
                   /\ <<tx_inc, tx_row, next_id>>' = <<tx_inc, tx_row, next_id>>
         ]_vars
    /\ [](\A c \in Callers :
               (Returned(c) /\ exc[c] = "SoldOutError") =>
                   /\ outcome[c] = "SoldOutError"
                   /\ StatusCode(c) = 409
                   /\ booking[c] = NoBooking
                   /\ ~tx_inc[c] /\ ~tx_row[c])

\* C6 witness: a call on a full event has returned "Event is sold out.".
C6_Witness ==
    \E c \in Callers :
        /\ Returned(c) /\ event_id[c] \in Events
        /\ booked_count[event_id[c]] = capacity[event_id[c]]
        /\ outcome[c] = "SoldOutError" /\ message[c] = MsgSoldOut

\* booked_count of the caller's event as the caller's session reads it
SeenCount(c) == booked_count[event_id[c]] + (IF tx_inc[c] THEN 1 ELSE 0)

\* C7 - successful reserve effect: the UPDATE of a call raises the event's
\* booked_count, as the call's session reads it, by exactly one and the
\* insert keeps it there; the Booking built has an id no other booking has,
\* the call's event_id and user_id and status PENDING; capacity never
\* changes; a call that returned a Booking has both the increment and the
\* row in its session - committed, or both still in its open transaction,
\* whose commit then adds exactly that increment and that row.
C7_ReserveEffect ==
    /\ [][ \A c \in Callers :
               /\ (pc[c] = "update" /\ pc'[c] = "insert") =>
                      SeenCount(c)' = SeenCount(c) + 1
               /\ (pc[c] = "insert" /\ pc'[c] = "release" /\ exc'[c] = "none") =>
                      /\ SeenCount(c)' = SeenCount(c)
                      /\ booking'[c].id >= 1
                      /\ \A b \in bookings : b.id # booking'[c].id
                      /\ \A d \in Callers : booking[d].id # booking'[c].id
               /\ (pc[c] = "returned" /\ tx_inc[c] /\ ~tx_inc'[c]) =>
                      /\ booked_count' = [booked_count EXCEPT ![event_id[c]] = @ + 1]
                      /\ bookings' = bookings \cup {booking[c]}
               /\ capacity' = capacity
         ]_vars
    /\ [](\A c \in Callers :
               outcome[c] = "Booking" =>
                   /\ booking[c].event_id = event_id[c]
                   /\ booking[c].user_id = user_id[c]
                   /\ booking[c].status = PENDING
                   /\ tx_row[c] = tx_inc[c]
                   /\ (~tx_row[c] => booking[c] \in bookings)
                   /\ (tx_row[c] => booking[c] \notin bookings))

\* C7 witness: a call has returned a Booking that is committed, with the
\* counter of its event one above what the event was created with.
C7_Witness ==
    \E c \in Callers :
        /\ outcome[c] = "Booking" /\ ~tx_inc[c]
        /\ booking[c] \in bookings
        /\ booked_count[event_id[c]] = created_count[event_id[c]] + 1

Min(a, b) == IF a <= b THEN a ELSE b

\* C8 - sequential saturation: when calls on one event with capacity C,
\* created with booked_count k <= C, run one after the other, the j-th call
\* returns a Booking iff j <= C - k; every later call fails with
\* SoldOutError "Event is sold out."; after j calls booked_count is
\* min(C, k + j).
C8_Sequential ==
    \A c \in Callers :
        (/\ pc[c] = "returned" /\ ~tx_inc[c] /\ event_id[c] \in Events
         /\ \A d \in 1..c : event_id[d] = event_id[c]
         /\ \A d \in Callers : d > c => pc[d] = "idle") =>
            /\ (outcome[c] = "Booking") = (c <= capacity[event_id[c]] - created_count[event_id[c]])
            /\ outcome[c] # "Booking" =>
                   (outcome[c] = "SoldOutError" /\ message[c] = MsgSoldOut)
            /\ booked_count[event_id[c]] =
                   Min(capacity[event_id[c]], created_count[event_id[c]] + c)

\* C8 witness: an event created one short of its capacity took the first
\* call and turned the second away.
C8_Witness ==
    \E e \in Events :
        /\ created_count[e] = capacity[e] - 1
        /\ event_id[1] = e /\ outcome[1] = "Booking" /\ ~tx_inc[1]
        /\ event_id[2] = e /\ outcome[2] = "SoldOutError" /\ message[2] = MsgSoldOut
        /\ booked_count[e] = capacity[e]

\* C9 - guaranteed release: no call that has left create_booking still owns
\* the lock of its event, whichever way it left (Booking, SoldOutError, or
\* a database error raised by the UPDATE or the flush).
C9_Released ==
    \A c \in Callers : Returned(c) => lock[event_id[c]] # c

\* C9 witness: one call left with a database error and another with
\* "Event is sold out.", both after owning the lock up to their release.
C9_Witness ==
    \E c \in Callers, d \in Callers :
        /\ Returned(c) /\ outcome[c] = "Error"
        /\ Returned(d) /\ outcome[d] = "SoldOutError" /\ message[d] = MsgSoldOut

\* C10 - finalization idempotence: every finalize run on an existing
\* booking can commit whatever the booking's status, and its commit leaves
\* the booking FINALIZED and everything else in the database as it was; a
\* run on a booking that is already FINALIZED changes nothing at all; a
\* booking a run has finalized is FINALIZED ever after.
C10_Idempotent ==
    /\ [][ \A w \in Workers :
               (wpc[w] = "set" /\ wpc'[w] = "idle" /\ wout'[w] = "ok") =>
                   /\ GetBooking(wid[w])' = [GetBooking(wid[w]) EXCEPT !.status = FINALIZED]
                   /\ \A b \in bookings : b.id # wid[w] => b \in bookings'
                   /\ Cardinality(bookings') = Cardinality(bookings)
                   /\ <<capacity, booked_count>>' = <<capacity, booked_count>>
                   /\ GetBooking(wid[w]).status = FINALIZED => store' = store
         ]_vars
    /\ [](\A w \in Workers :
               /\ wpc[w] = "set" => (GetBooking(wid[w]) # NoBooking /\ ENABLED FinalizeCommit(w))
               /\ (wpc[w] = "idle" /\ wout[w] = "ok" /\ wrow[w] # NoBooking) =>
                      GetBooking(wid[w]).status = FINALIZED)

\* C10 witness: a run that found its booking already FINALIZED has
\* completed without error.
C10_Witness ==
    \E w \in Workers :
        /\ wpc[w] = "idle" /\ wout[w] = "ok"
        /\ wrow[w].status = FINALIZED
        /\ GetBooking(wid[w]).status = FINALIZED

\* C11 - finalization of an absent reservation is a no-op: a finalize run
\* whose id matches no Booking row, once past its lookup, is over with no
\* error; it creates no row and changes no event, no booking, no lock and
\* no message (a run cut short from outside, by a database failure or the
\* worker's death, is not the function's doing and is left aside).
C11_AbsentNoOp ==
    /\ [][ \A w \in Workers :
               (/\ wpc[w] = "get" /\ GetBooking(wid[w]) = NoBooking
                /\ wpc'[w] # "get" /\ wout'[w] # "error") =>
                   /\ wpc'[w] = "idle" /\ wout'[w] = "ok"
                   /\ wrow'[w] = NoBooking
                   /\ <<store, next_id, lock, queue>>' = <<store, next_id, lock, queue>>
         ]_vars
    /\ [](\A w \in Workers :
               /\ (wpc[w] = "get" /\ GetBooking(wid[w]) = NoBooking) => ENABLED FinalizeGet(w)
               /\ wpc[w] = "set" => wrow[w] # NoBooking)

\* C11 witness: a run for an id no Booking row has ended without error,
\* while bookings exist under other ids.
C11_Witness ==
    \E w \in Workers :
        /\ wpc[w] = "idle" /\ wout[w] = "ok" /\ wrow[w] = NoBooking
        /\ GetBooking(wid[w]) = NoBooking
        /\ bookings # {}

\* C12 - reservation lifecycle: every Booking row has status PENDING or
\* FINALIZED; whatever step is taken (booking, dispatch, worker run), every
\* row that exists still exists afterwards with the same id, event and
\* user, and its status is as before or has gone from PENDING to
\* FINALIZED; a worker run that fails leaves every row as it was.
C12_Lifecycle ==
    /\ [](\A b \in bookings : b.status \in BookingStatus)
    /\ [][ /\ \A b \in bookings :
                  \/ b \in bookings'
                  \/ /\ b.status = PENDING
                     /\ [b EXCEPT !.status = FINALIZED] \in bookings'
            /\ \A i \in BookingIds :
                  GetBooking(i).status = FINALIZED => GetBooking(i)'.status = FINALIZED
            /\ \A w \in Workers :
                  (wpc[w] # "idle" /\ wout'[w] = "error") => bookings' = bookings
         ]_vars

\* C12 witness: one booking has been finalized; the run for another booking
\* has failed and that booking is still PENDING.
C12_Witness ==
    \E w \in Workers, b \in bookings :
        /\ b.status = FINALIZED
        /\ wpc[w] = "idle" /\ wout[w] = "error" /\ wrow[w] # NoBooking
        /\ wid[w] # b.id
        /\ GetBooking(wid[w]).status = PENDING

\* C13 - dispatch failure does not undo acceptance: the step in which a
\* request ends without its task enqueued changes neither events nor
\* bookings; a request that has ended so has answered 200 with its
\* Booking, the row is committed with status PENDING, and booked_count of
\* its event still counts it (it equals the number of the event's rows).
C13_DispatchFailure ==
    /\ [][ \A c \in Callers :
               (pc[c] = "returned" /\ pc'[c] = "responded" /\ ~enqueued'[c]) =>
                   /\ store' = store
                   /\ queue' = queue
                   /\ booking'[c] = booking[c]
         ]_vars
    /\ [](\A c \in Callers :
               (pc[c] = "responded" /\ ~enqueued[c]) =>
                   /\ outcome[c] = "Booking" /\ StatusCode(c) = 200
                   /\ booking[c] \in bookings
                   /\ booking[c].status = PENDING
                   /\ booked_count[event_id[c]] >= 1
                   /\ booked_count[event_id[c]] =
                          Cardinality(RowsOf(bookings, event_id[c])))

\* C13 witness: a request whose enqueue failed has been answered and its
\* booking is committed.
C13_Witness ==
    \E c \in Callers :
        /\ pc[c] = "responded" /\ ~enqueued[c]
        /\ booking[c] \in bookings
        /\ booked_count[event_id[c]] = capacity[event_id[c]]

\* C14 - lock-free sufficiency: with the lock taken out of create_booking,
\* in every interleaving every event keeps 0 <= booked_count <= capacity
\* and at most capacity Booking rows; and once N >= C concurrent calls on
\* an event of capacity C created empty have all returned, the database
\* never having failed, exactly C returned a Booking, N - C failed with
\* SoldOutError "Event is sold out." and booked_count is C.
C14_LockFree ==
    /\ \A k \in EventIds : lock[k] = NoCaller
    /\ \A e \in Events :
          /\ 0 <= booked_count[e]
          /\ booked_count[e] + Cardinality(PendingIncrements(e)) <= capacity[e]
          /\ Cardinality(RowsOf(bookings, e)) <= capacity[e]
          /\ (NumCallers >= capacity[e] /\ AllReturnedOn(e) /\ NoDatabaseError) =>
                 /\ Cardinality(Accepted) = capacity[e]
                 /\ Cardinality(SoldOut) = NumCallers - capacity[e]
                 /\ booked_count[e] = capacity[e]

\* C14 witness: two calls for the last ticket of an event ran unlocked;
\* the one that entered second got the Booking, the first was turned away.
C14_Witness ==
    \E e \in Events, c \in Callers, d \in Callers :
        /\ c < d /\ AllReturnedOn(e) /\ NoDatabaseError
        /\ outcome[d] = "Booking"
        /\ outcome[c] = "SoldOutError" /\ message[c] = MsgSoldOut
        /\ booked_count[e] = capacity[e]

\* C15 - crash safety of the lock: when a caller has crashed inside the
\* critical section while owning the lock, the lock leaves it (the lease
\* runs out); the crashed call keeps no transaction open, so it holds no
\* row either; and whenever the lock of an event is absent, a new call on
\* that event can acquire it.
C15_CrashSafety ==
    /\ \A c \in Callers, k \in EventIds :
          (pc[c] = "crashed" /\ lock[k] = c) ~> (lock[k] # c)
    /\ [](\A c \in Callers : pc[c] = "crashed" => (~tx_inc[c] /\ ~tx_row[c]))
    /\ [](\A d \in Callers, e \in EventIds :
              (Arrives(d) /\ Settled /\ LockAbsent(e)) => ENABLED (Settled /\ AcquireLock(d, e, FALSE)))

\* C15 witness: a caller crashed after its UPDATE, never released, and a
\* later call on the same event has returned a Booking.
C15_Witness ==
    \E c \in Callers, d \in Callers :
        /\ c < d /\ pc[c] = "crashed"
        /\ event_id[d] = event_id[c]
        /\ outcome[d] = "Booking" /\ booking[d] \in bookings
        /\ lock[event_id[c]] = NoCaller

\* C16 - persistence-error propagation: a call in which the UPDATE or the
\* flush raised a database error ends with that error, not with
\* SoldOutError (its answer is not 409); by then it does not own the lock,
\* its transaction is rolled back, and it has committed neither an
\* increment nor a row.
C16_Original ==
    \A c \in Callers :
        (Returned(c) /\ exc[c] \in {"ExecuteError", "FlushError"}) =>
            /\ outcome[c] = "Error"
            /\ StatusCode(c) # 409
            /\ lock[event_id[c]] # c
            /\ ~tx_inc[c] /\ ~tx_row[c]
            /\ \A b \in bookings : b.user_id # c

\* C17 - eventual finalization: every booking whose finalization task was
\* enqueued is eventually FINALIZED and stays so, the worker being weakly
\* fair.
C17_Original ==
    \A c \in Callers :
        enqueued[c] ~> [](GetBooking(booking[c].id).status = FINALIZED)

\* C18 - counter monotonicity and single mutation path: in every step of
\* the service capacity is unchanged and booked_count of at most one event
\* changes, by exactly +1, and then the step is the commit of a call on
\* that event whose conditional UPDATE went through; steps of the worker,
\* of the dispatch and of the read routes change neither.
C18_SingleMutationPath ==
    [][ /\ capacity' = capacity
        /\ \A e \in Events :
              /\ booked_count'[e] \in {booked_count[e], booked_count[e] + 1}
              /\ booked_count'[e] # booked_count[e] =>
                     /\ \E c \in Callers :
                            /\ event_id[c] = e /\ tx_inc[c] /\ ~tx_inc'[c]
                            /\ pc[c] = "insert" /\ pc'[c] = "release"
                     /\ \A f \in Events : f # e => booked_count'[f] = booked_count[f]
        /\ (wvars' # wvars \/ rvars' # rvars \/ queue' # queue \/ enqueued' # enqueued) =>
              booked_count' = booked_count
      ]_vars

\* C18 witness: an event has taken two bookings, one of them is finalized,
\* and a stats request is being answered with the counter as stored.
C18_Witness ==
    \E e \in Events, b \in bookings :
        /\ booked_count[e] = created_count[e] + 2
        /\ b.event_id = e /\ b.status = FINALIZED
        /\ http = 200 /\ stats.event_id = e /\ stats.booked_count = booked_count[e]

C20_AbsentStats ==
    /\ [](/\ get_event_stats(MissingEvent) = EmptyStats
          /\ \A e \in Events : get_event_stats(e) # EmptyStats)
    /\ [][ /\ EventStats(MissingEvent) => (http' = 404 /\ stats' = EmptyStats)
           /\ EventReport(MissingEvent) => (http' = 404 /\ stats' = EmptyStats)
           /\ (http = 0 /\ http' # 0 /\ report' = NoReport) =>
                  (http' = 404 <=> stats' = EmptyStats)
           /\ (http = 0 /\ http' # 0) =>
                  UNCHANGED <<evars, bookings, next_id, lock, cvars, queue, enqueued, wvars>>
         ]_vars

\* C20 witness: a request for the stats of an absent event is being
\* answered 404 with the empty result while bookings exist.
C20_Witness ==
    /\ http = 404 /\ stats = EmptyStats
    /\ \E b \in bookings : b.status = FINALIZED
    /\ \E e \in Events : booked_count[e] > 0

\* C21 - Independence across events: a step of a create_booking call on
\* event A leaves capacity, booked_count and the Booking rows of every other
\* event, and the lock key of every other id, as they were; a caller who
\* arrives can take the lock of any id whose key is absent, whatever locks
\* other callers hold; and a caller inside the critical section of B can
\* carry out its UPDATE and its insert whenever no other call on B is in
\* its transaction, whatever the callers on other events are doing.
C21_Independence ==
    /\ [][ \A c \in Callers :
               pc'[c] # pc[c] =>
                   /\ \A B \in DOMAIN capacity :
                          B # event_id'[c] =>
                              /\ capacity'[B] = capacity[B]
                              /\ booked_count'[B] = booked_count[B]
                              /\ RowsOf(bookings', B) = RowsOf(bookings, B)
                   /\ \A k \in EventIds : k # event_id'[c] => lock'[k] = lock[k]
         ]_vars
    /\ [](\A d \in Callers, B \in EventIds :
              (Arrives(d) /\ LockAbsent(B)) => ENABLED AcquireLock(d, B, FALSE))
    /\ [](\A d \in Callers :
              /\ (pc[d] = "update" /\ UpdateMatches(event_id[d])
                    /\ \A c \in Callers \ {d} : ~(tx_inc[c] /\ event_id[c] = event_id[d]))
                     => ENABLED UpdateOne(d)
              /\ pc[d] = "insert" => ENABLED InsertBooking(d))

\* C21 witness: the first caller is still in its critical section, holding
\* the lock of event A, and the caller who came after it has booked on
\* another event B in the meantime.
C21_Witness ==
    \E c \in Callers, d \in Callers :
        /\ c < d
        /\ event_id[c] \in DOMAIN capacity /\ event_id[d] \in DOMAIN capacity
        /\ event_id[c] # event_id[d]
        /\ pc[c] = "update" /\ lock[event_id[c]] = c
        /\ pc[d] = "returned" /\ outcome[d] = "Booking"
        /\ booking[d] \in bookings /\ booking[d].event_id = event_id[d]
        /\ booked_count[event_id[d]] = 1 /\ booked_count[event_id[c]] = 0

\* the sum of f over the set S of its arguments
RECURSIVE SumOver(_, _)
SumOver(f, S) ==
    IF S = {} THEN 0
    ELSE LET x == CHOOSE y \in S : TRUE IN f[x] + SumOver(f, S \ {x})

\* C22 - Overall report: a GET /report is answered 200 with total_capacity
\* the sum of capacity over all Event rows, total_reserved the sum of
\* booked_count over all Event rows and total_finalized the number of
\* FINALIZED Booking rows, each 0 while the events table is empty; with
\* events created by POST /event and changed by bookings and finalize runs
\* only, total_finalized <= total_reserved <= total_capacity, and
\* total_reserved is the number of Booking rows.
C22_OverallReport ==
    /\ [][ (http = 0 /\ http' # 0) =>
               /\ http' = 200
               /\ report' = [total_capacity |-> SumOver(capacity, DOMAIN capacity),
                             total_reserved |-> SumOver(booked_count, DOMAIN booked_count),
                             total_finalized |->
                                 Cardinality({b \in bookings : b.status = FINALIZED})]
               /\ DOMAIN capacity = {} =>
                      report' = [total_capacity |-> 0, total_reserved |-> 0,
                                 total_finalized |-> 0]
               /\ UNCHANGED <<evars, bookings, next_id, lock, cvars, queue, enqueued, wvars>>
         ]_vars
    /\ [](/\ get_overall_report.total_finalized <= get_overall_report.total_reserved
          /\ get_overall_report.total_reserved <= get_overall_report.total_capacity
          /\ get_overall_report.total_reserved = Cardinality(bookings))

\* C22 witness: a report over two events is being answered with one
\* booking finalized out of two made and tickets still left.
C22_Witness ==
    /\ http = 200
    /\ Cardinality(DOMAIN capacity) = 2
    /\ report.total_finalized = 1
    /\ report.total_reserved = 2
    /\ report.total_capacity > 2
    /\ \A e \in DOMAIN capacity : booked_count[e] = 1

\* the call's one lock.acquire returned False
TimedOut(c) ==
    /\ pc[c] = "returned" /\ outcome[c] = "SoldOutError" /\ message[c] = MsgLock
    /\ exc[c] = "none" /\ booking[c] = NoBooking

\* C23 - No internal retry: a create_booking call makes one lock.acquire,
\* which sends it into the critical section or ends it; it is at its UPDATE
\* at most once (once past it, it never comes back to it); a call whose
\* acquire timed out ends at once with SoldOutError "Could not acquire
\* lock", without holding a key, an increment or a row, and once a call
\* has returned its outcome never changes and it takes no further step in
\* create_booking.
C23_NoRetry ==
    /\ [][ \A c \in Callers :
               /\ (pc[c] = "idle" /\ (pc'[c] # "idle" \/ event_id'[c] # event_id[c])) =>
                      pc'[c] \in {"update", "returned"}
               /\ pc[c] # "idle" =>
                      (pc'[c] # "idle" /\ event_id'[c] = event_id[c])
               /\ pc[c] \in {"insert", "release", "returned", "crashed"} =>
                      pc'[c] # "update"
               /\ (pc[c] = "idle" /\ pc'[c] = "returned") =>
                      /\ outcome'[c] = "SoldOutError" /\ message'[c] = MsgLock
                      /\ UNCHANGED <<store, lock, tx_inc, tx_row, next_id>>
               /\ pc[c] = "returned" =>
                      /\ pc'[c] = "returned"
                      /\ outcome'[c] = outcome[c] /\ message'[c] = message[c]
                      /\ TimedOut(c) => (~tx_inc'[c] /\ ~tx_row'[c] /\ booking'[c] = NoBooking)
         ]_vars
    /\ [](\A c \in Callers :
              TimedOut(c) =>
                  /\ ~tx_inc[c] /\ ~tx_row[c]
                  /\ \A b \in bookings : b.user_id # c
                  /\ \A k \in EventIds : lock[k] # c)

\* C23 witness: a call timed out waiting for the lock of an event; the
\* holder has since booked and released, the key is free and a ticket is
\* left, and the call that timed out stays failed.
C23_Witness ==
    \E c \in Callers, d \in Callers :
        /\ TimedOut(c) /\ event_id[c] \in Events
        /\ event_id[d] = event_id[c] /\ pc[d] = "returned" /\ outcome[d] = "Booking"
        /\ LockAbsent(event_id[c])
        /\ booked_count[event_id[c]] < capacity[event_id[c]]

\* C24 - Booking on an event that does not exist: a create_booking call
\* whose event_id has no Event row never gets past its UPDATE (rowcount 0),
\* never returns a Booking, and returns SoldOutError (409) unless the
\* UPDATE itself raised a database error; it leaves no Booking row with
\* that event_id, no Event row is added, and once it has returned it does
\* not hold the lock key of that id.
C24_NoSuchEvent ==
    /\ DOMAIN capacity = Events /\ DOMAIN booked_count = Events
    /\ \A b \in bookings : b.event_id \in Events
    /\ \A c \in Callers :
           event_id[c] = MissingEvent =>
               /\ pc[c] # "insert" /\ ~tx_inc[c] /\ ~tx_row[c]
               /\ booking[c] = NoBooking
               /\ exc[c] \in {"none", "SoldOutError", "ExecuteError"}
               /\ pc[c] = "release" => exc[c] \in {"SoldOutError", "ExecuteError"}
               /\ Returned(c) =>
                      /\ outcome[c] \in {"SoldOutError", "Error"}
                      /\ exc[c] # "ExecuteError" =>
                             (outcome[c] = "SoldOutError" /\ StatusCode(c) = 409)
                      /\ lock[MissingEvent] # c

\* C24 witness: a call for the missing id took the lock, was turned away
\* by the UPDATE with "Event is sold out." and released the key, while the
\* events that exist still have tickets.
C24_Witness ==
    \E c \in Callers :
        /\ event_id[c] = MissingEvent /\ pc[c] = "returned"
        /\ exc[c] = "SoldOutError"
        /\ outcome[c] = "SoldOutError" /\ message[c] = MsgSoldOut
        /\ LockAbsent(MissingEvent)
        /\ \A e \in Events : booked_count[e] < capacity[e]

\* C25 - Termination of create_booking: a caller who arrives is never kept
\* waiting by the lock (its acquire returns True or, the key being taken,
\* False, whoever holds the key and whether or not the holder will ever
\* release it); whenever calls are inside the critical section one of them
\* can take its next step; and every call inside the critical section
\* eventually returns, unless its process dies.
C25_Termination ==
    /\ [](\A c \in Callers, e \in EventIds :
              Arrives(c) =>
                  (ENABLED AcquireLock(c, e, FALSE) \/ ENABLED AcquireTimeout(c, e, FALSE)))
    /\ []((\E c \in Callers : InCriticalSection(c)) =>
              \E d \in Callers :
                  /\ InCriticalSection(d)
                  /\ ENABLED (UpdateOne(d) \/ UpdateNone(d) \/ InsertBooking(d) \/ ReleaseLock(d)))
    /\ \A c \in Callers :
           InCriticalSection(c) ~> (pc[c] \in {"returned", "crashed"})

\* C25 witness: the holder of an event's lock died without releasing it,
\* the key is still there, and a later call for the same event has
\* returned all the same, turned away after its wait.
C25_Witness ==
    \E c \in Callers, d \in Callers :
        /\ pc[c] = "crashed" /\ lock[event_id[c]] = c
        /\ event_id[d] = event_id[c]
        /\ TimedOut(d)

\* C26 - Dispatch ordering: a finalize_booking_task message for booking i is
\* put on the queue only by the request whose create_booking has returned
\* the Booking i, after the row and its increment were committed and the
\* lock released; a request makes one attempt, after which it has answered
\* and does nothing more; a request turned away with SoldOutError puts
\* nothing on the queue; so the queue never holds more than the one message
\* for a booking.
C26_DispatchOrdering ==
    /\ [][ /\ \A i \in BookingIds :
                 queue'[i] > queue[i] =>
                     /\ queue'[i] = queue[i] + 1
                     /\ \E c \in Callers :
                            /\ pc[c] = "returned" /\ pc'[c] = "responded"
                            /\ outcome[c] = "Booking" /\ booking[c].id = i
                            /\ GetBooking(i) # NoBooking
                            /\ GetBooking(i).event_id = event_id[c]
                            /\ ~tx_inc[c] /\ ~tx_row[c]
                            /\ lock[event_id[c]] # c
                            /\ ~enqueued[c] /\ enqueued'[c]
           /\ \A c \in Callers :
                 /\ pc[c] = "responded" =>
                        (pc'[c] = "responded" /\ enqueued'[c] = enqueued[c])
                 /\ enqueued'[c] # enqueued[c] =>
                        (pc[c] = "returned" /\ pc'[c] = "responded")
                 /\ outcome[c] = "SoldOutError" =>
                        (pc'[c] = pc[c] /\ ~enqueued'[c])
         ]_vars
    /\ [](\A i \in BookingIds :
              /\ queue[i] <= 1
              /\ queue[i] > 0 =>
                     \E c \in Callers : enqueued[c] /\ booking[c].id = i)
    /\ [](\A c \in Callers : enqueued[c] => (outcome[c] = "Booking" /\ pc[c] = "responded"))

\* C26 witness: one request booked the last ticket and its message is on
\* the queue, the booking still PENDING; the next request was turned away
\* and has put nothing there.
C26_Witness ==
    \E c \in Callers, d \in Callers :
        /\ enqueued[c] /\ queue[booking[c].id] = 1
        /\ GetBooking(booking[c].id).status = PENDING
        /\ pc[d] = "returned" /\ outcome[d] = "SoldOutError" /\ message[d] = MsgSoldOut
        /\ ~enqueued[d]
        /\ \A i \in BookingIds : i # booking[c].id => queue[i] = 0

\* C27 - Concurrent duplicate delivery: when several workers run
\* finalize_booking on the same booking id at the same time, each run that
\* has read the row can commit, whatever the other runs have done to the
\* row since, and its commit ends the run without error with the booking
\* FINALIZED; a finished run leaves the booking FINALIZED for good; and no
\* step of a run changes another booking, the booking's id, event_id or
\* user_id, or any event.
C27_DuplicateDelivery ==
    /\ [](\A w \in Workers :
              wpc[w] = "set" =>
                  ENABLED (/\ FinalizeCommit(w)
                           /\ wout'[w] = "ok"
                           /\ GetBooking(wid[w])'.status = FINALIZED))
    /\ [](\A w \in Workers :
              (wpc[w] = "idle" /\ wout[w] = "ok" /\ GetBooking(wid[w]) # NoBooking) =>
                  GetBooking(wid[w]).status = FINALIZED)
    /\ [][ /\ evars' = evars
           /\ {[b EXCEPT !.status = FINALIZED] : b \in bookings'} =
                  {[b EXCEPT !.status = FINALIZED] : b \in bookings}
           /\ \A b \in bookings :
                  (b \notin bookings') =>
                      \E w \in Workers :
                          wpc[w] = "set" /\ wpc'[w] = "idle" /\ wid[w] = b.id
         ]_vars

\* C27 witness: two runs on the same booking overlapped: one has committed
\* and the booking is FINALIZED, while the other, which read the row when
\* it was still PENDING, is about to commit.
C27_Witness ==
    \E w \in Workers, v \in Workers :
        /\ w # v /\ wid[w] = wid[v]
        /\ wpc[w] = "idle" /\ wout[w] = "ok"
        /\ wpc[v] = "set" /\ wrow[v].status = PENDING
        /\ GetBooking(wid[v]).status = FINALIZED
        /\ \E b \in bookings : b.id # wid[v] /\ b.status = PENDING

\* C28 - Rejected implies no effect (as claimed): a create_booking call that
\* ended with SoldOutError has committed neither an increment of
\* booked_count nor a Booking row, so that once every call has returned the
\* calls that returned a Booking are as many as the committed Booking rows
\* and as the tickets counted as booked.
C28_Original ==
    /\ \A c \in Callers :
           (Returned(c) /\ outcome[c] = "SoldOutError") =>
               /\ \A b \in bookings : b.user_id # c
               /\ booking[c] \notin bookings
    /\ (\A c \in Callers : Returned(c)) =>
           /\ Cardinality(Accepted) = Cardinality(bookings)
           /\ \A e \in Events :
                  booked_count[e] = Cardinality({c \in Accepted : event_id[c] = e})

\* the rows of caller c's call that a step commits
Commits(c) == \E b \in bookings' \ bookings : b.user_id = c

\* C29 - Commit inside the lock (as claimed): whenever create_booking has
\* returned a Booking, on either path, the transaction holding the
\* increment and the row has been committed.
C29_Original ==
    \A c \in Callers :
        outcome[c] = "Booking" =>
            (booking[c] \in bookings /\ ~tx_inc[c] /\ ~tx_row[c])

\* C29 - Commit inside the lock: a call takes its steps in the order
\* acquire, UPDATE, insert, release, holding the lock from the acquire to
\* the release; with a session that was not in a transaction the increment
\* and the row are committed together by the insert step, while the call
\* holds the lock, and are committed when it returns; with a session that
\* was already in a transaction create_booking commits nothing, and the
\* increment and the row are committed together by the session's owner
\* after the call has returned and released the lock.
C29_CommitInsideLock ==
    /\ [][ \A c \in Callers :
               /\ pc'[c] # pc[c] =>
                      <<pc[c], pc'[c]>> \in {<<"idle", "update">>, <<"update", "insert">>,
                                             <<"update", "release">>, <<"insert", "release">>,
                                             <<"release", "returned">>}
               /\ (pc[c] \in {"update", "insert", "release"}) => lock[event_id[c]] = c
               /\ (pc[c] = "release" /\ pc'[c] = "returned") =>
                      (lock[event_id[c]] = c /\ lock'[event_id[c]] = NoCaller)
               /\ Commits(c) =>
                      /\ booked_count'[event_id[c]] = booked_count[event_id[c]] + 1
                      /\ ~tx_inc'[c] /\ ~tx_row'[c]
                      /\ IF in_tx[c]
                         THEN pc[c] = "returned" /\ lock[event_id[c]] # c
                         ELSE /\ pc[c] = "insert" /\ pc'[c] = "release"
                              /\ lock[event_id[c]] = c /\ lock'[event_id[c]] = c
         ]_vars
    /\ [](\A c \in Callers :
              (outcome[c] = "Booking" /\ ~in_tx[c]) =>
                  (booking[c] \in bookings /\ ~tx_inc[c] /\ ~tx_row[c]))
    /\ [](\A c \in Callers :
              (outcome[c] = "Booking" /\ in_tx[c]) =>
                  \/ tx_inc[c] /\ tx_row[c] /\ booking[c] \notin bookings
                  \/ ~tx_inc[c] /\ ~tx_row[c] /\ booking[c] \in bookings)

\* C29 witness: a call with a new session has returned its Booking,
\* committed, and a later call with a session already in a transaction has
\* returned its Booking and released the lock with its increment and its
\* row still uncommitted.
C29_Witness ==
    \E c \in Callers, d \in Callers :
        /\ ~in_tx[c] /\ outcome[c] = "Booking" /\ booking[c] \in bookings
        /\ in_tx[d] /\ outcome[d] = "Booking" /\ pc[d] = "returned"
        /\ tx_inc[d] /\ tx_row[d] /\ booking[d] \notin bookings
        /\ LockAbsent(event_id[d])

\* C30 - Count ordering invariant: in every committed state, every event
\* created by POST /event and changed since by bookings and finalize runs
\* only has finalized_count (its FINALIZED Booking rows, as get_event_stats
\* counts them) <= the number of its Booking rows = booked_count <=
\* capacity.
C30_CountOrdering ==
    \A e \in DOMAIN capacity :
        /\ created_count[e] = 0
        /\ 0 <= get_event_stats(e).finalized_count
        /\ get_event_stats(e).finalized_count <= Cardinality({b \in bookings : b.event_id = e})
        /\ Cardinality({b \in bookings : b.event_id = e}) = booked_count[e]
        /\ get_event_stats(e).booked_count = booked_count[e]
        /\ booked_count[e] <= capacity[e]
        /\ get_event_stats(e).capacity = capacity[e]

\* C30 witness: an event is full with two bookings, one of them finalized
\* and the other still PENDING.
C30_Witness ==
    \E e \in DOMAIN capacity :
        /\ get_event_stats(e).finalized_count = 1
        /\ Cardinality(RowsOf(bookings, e)) = 2
        /\ booked_count[e] = 2 /\ capacity[e] = 2
        /\ \E b \in bookings : b.event_id = e /\ b.status = PENDING

\* the request that made booking b went through its enqueue
Dispatched(b) == enqueued[b.user_id] /\ booking[b.user_id].id = b.id

\* C31 - Finalization requires dispatch: a booking is FINALIZED only if the
\* request that made it has enqueued a finalize_booking_task message for its
\* id, and a worker runs only on an id some request has enqueued; the
\* enqueue happens only in a request that is back from create_booking with
\* its Booking, so a committed booking whose request has answered without
\* enqueuing, was turned away after its commit or died is never enqueued
\* afterwards and stays PENDING for good.
C31_RequiresDispatch ==
    /\ [](\A b \in bookings : b.status = FINALIZED => Dispatched(b))
    /\ [](\A w \in Workers :
              wpc[w] # "idle" =>
                  \E c \in Callers : enqueued[c] /\ booking[c].id = wid[w])
    /\ [][ \A c \in Callers :
               /\ (enqueued'[c] /\ ~enqueued[c]) =>
                      (pc[c] = "returned" /\ outcome[c] = "Booking" /\ pc'[c] = "responded")
               /\ ((pc[c] \in {"responded", "crashed"}
                      \/ (pc[c] = "returned" /\ outcome[c] # "Booking")) /\ ~enqueued[c]) =>
                      /\ ~enqueued'[c]
                      /\ pc'[c] = pc[c]
                      /\ \A b \in bookings :
                             b.user_id = c => (b \in bookings' /\ b.status = PENDING)
         ]_vars

\* C31 witness: of two committed bookings, the one whose request enqueued
\* its message is FINALIZED; the request of the other has answered after a
\* failed enqueue, the queue is empty, the worker is idle, and that booking
\* is PENDING.
C31_Witness ==
    \E b \in bookings, d \in bookings :
        /\ b.status = FINALIZED /\ Dispatched(b)
        /\ d.status = PENDING
        /\ pc[d.user_id] = "responded" /\ ~enqueued[d.user_id]
        /\ \A i \in BookingIds : queue[i] = 0
        /\ \A w \in Workers : wpc[w] = "idle"

\* C32 - Frame of finalize: the commit of a finalize run on an existing
\* booking r replaces r by r with status FINALIZED and changes nothing
\* else: r keeps its id, event_id and user_id, every other booking is as it
\* was, capacity and booked_count of every event are unchanged, and no lock
\* key is taken or dropped, whoever holds one at the time; the other steps
\* of a run change no booking, no event and no lock at all.
C32_FinalizeFrame ==
    [][ \A w \in Workers :
           /\ wpc'[w] # wpc[w] =>
                  /\ evars' = evars
                  /\ lock' = lock
                  /\ next_id' = next_id
                  /\ cvars' = cvars
           /\ (wpc'[w] # wpc[w] /\ ~(wpc[w] = "set" /\ wout'[w] = "ok")) =>
                  bookings' = bookings
           /\ (wpc[w] = "set" /\ wpc'[w] = "idle" /\ wout'[w] = "ok"
                 /\ GetBooking(wid[w]) # NoBooking) =>
                  LET r == GetBooking(wid[w]) IN
                      /\ bookings' = (bookings \ {r}) \cup
                              {[id |-> r.id, event_id |-> r.event_id,
                                user_id |-> r.user_id, status |-> FINALIZED]}
                      /\ Cardinality(bookings') = Cardinality(bookings)
                      /\ \A b \in bookings : b.id # r.id => b \in bookings'
      ]_vars

\* C32 witness: a finalize run has committed one booking of an event; the
\* event's other booking is still PENDING, booked_count counts both, and a
\* request inside its critical section holds the event's lock.
C32_Witness ==
    \E w \in Workers, c \in Callers, b \in bookings :
        /\ wpc[w] = "idle" /\ wout[w] = "ok"
        /\ GetBooking(wid[w]).status = FINALIZED
        /\ b.id # wid[w] /\ b.status = PENDING
        /\ b.event_id = GetBooking(wid[w]).event_id
        /\ booked_count[b.event_id] = 2
        /\ pc[c] = "release" /\ lock[event_id[c]] = c

====
